---- MODULE Spec2Model ----
(***************************************************************************)
(* Model of igs2gs/igs2gs_metrics/clip_metrics copy.py: the ClipSimilarity *)
(* embedder, load_images_from_folder, find_least_similar and the driver    *)
(* main.                                                                   *)
(*                                                                         *)
(* Numbers.  Embeddings are 2-dimensional integer vectors in fixed point:  *)
(* the real number 1.0 is the integer One, so a unit-normalized embedding  *)
(* is a vector of Euclidean norm One and a cosine similarity s is the      *)
(* integer s * One * One.  All arithmetic is exact.                        *)
(*                                                                         *)
(* Environment.  CUDA is available (the .to("cuda") calls succeed) and     *)
(* print does not fail.  The interpreter runs with asserts on (the         *)
(* default, debug = TRUE) or with -O (asserts stripped, debug = FALSE);    *)
(* clip.load finds a checkpoint file at the path it is given or does not.  *)
(***************************************************************************)
EXTENDS Integers, Sequences, FiniteSets, TLC

(***************************************************************************)
(* Bounds of the model.                                                    *)
(***************************************************************************)
MaxFiles == 3      \* directory entries in the folder
MaxTopN == 4       \* largest top_n passed to main / find_least_similar
MaxN == 3          \* rows of a matrix handed directly to a function
MaxScore == 1      \* largest entry of a matrix handed to find_least_similar

(***************************************************************************)
(* Program constants.                                                      *)
(***************************************************************************)
One == 5
DefaultTopN == 3
DefaultSize == 224
DefaultModelName == "ViT-L/14"
ModelsPrefix == "./models/"
TargetExtension == ".png"

SupportedNames ==
    {"RN50", "RN101", "RN50x4", "RN50x16", "RN50x64",
     "ViT-B/32", "ViT-B/16", "ViT-L/14", "ViT-L/14@336px"}

\* torch.tensor((0.48145466, 0.4578275, 0.40821073)), in units of 1/10000
Mean == <<4815, 4578, 4082>>
\* torch.tensor((0.26862954, 0.26130258, 0.27577711)), in units of 1/10000
Std == <<2686, 2613, 2758>>

(***************************************************************************)
(* Generic helpers.                                                        *)
(***************************************************************************)
Min(a, b) == IF a <= b THEN a ELSE b

Max(a, b) == IF a >= b THEN a ELSE b

Abs(a) == IF a < 0 THEN 0 - a ELSE a

Range(s) == {s[x] : x \in DOMAIN s}

\* every ordering of the finite set S, as a sequence without repetition
Orderings(S) ==
    {s \in [1..Cardinality(S) -> S] : \A x, y \in DOMAIN s : x # y => s[x] # s[y]}

(***************************************************************************)
(* The inputs: the names main can be given and the files a folder can      *)
(* hold.  A file's content is fixed by its name (the folder is unchanged   *)
(* while the program runs); a folder is any subset of Files of at most     *)
(* MaxFiles entries.                                                       *)
(***************************************************************************)
ModelNames == {"ViT-L/14", "RN50x4", "resnet"}

Files == {"a.png", "b.png", "c.png", "f.png", "d.png", "e.png", "a.png.bak"}

\* the strings p for which p + suffix is tried as a file name
Stems == {"", "a", "b", "c", "d", "e", "f", "a.png", "a.png.bak"}

\* what torchvision.io.read_image makes of a file: ok = FALSE when the file
\* cannot be decoded, otherwise a uint8 tensor of shape <<3, h, w>> whose
\* pixels all have the colour px (values in 0..255)
Decode(name) ==
    CASE name = "a.png" -> [ok |-> TRUE, shape |-> <<3, 2, 2>>, px |-> <<255, 0, 0>>]
      [] name = "b.png" -> [ok |-> TRUE, shape |-> <<3, 2, 2>>, px |-> <<0, 255, 0>>]
      [] name = "c.png" -> [ok |-> TRUE, shape |-> <<3, 2, 2>>, px |-> <<0, 0, 1>>]
      [] name = "f.png" -> [ok |-> TRUE, shape |-> <<3, 2, 2>>, px |-> <<128, 128, 128>>]
      [] name = "d.png" -> [ok |-> TRUE, shape |-> <<3, 4, 4>>, px |-> <<1, 1, 1>>]
      [] name = "a.png.bak" -> [ok |-> TRUE, shape |-> <<3, 2, 2>>, px |-> <<9, 9, 9>>]
      [] OTHER -> [ok |-> FALSE, shape |-> <<>>, px |-> <<>>]

(***************************************************************************)
(* ClipSimilarity.                                                         *)
(***************************************************************************)
\* self.size: the dictionary lookup with its default
Size(name) ==
    CASE name = "RN50x4" -> 288
      [] name = "RN50x16" -> 384
      [] name = "RN50x64" -> 448
      [] name = "ViT-L/14@336px" -> 336
      [] OTHER -> DefaultSize

\* the assert of __init__: it is executed only when __debug__ is true
AssertPasses(dbg, name) == (~dbg) \/ name \in SupportedNames

\* clip.load(name, ...): a published variant name is loaded (downloaded or
\* cached); any other name must be the path of a checkpoint file
ClipLoadOK(name, store) == name \in SupportedNames \/ name \in store

\* F.interpolate(image.float(), size=self.size, mode="bicubic"): a float
\* tensor of shape <<B, C, size, size>>; an image of one colour keeps it
Interpolate(batch, sz) ==
    [shape |-> <<batch.shape[1], batch.shape[2], sz, sz>>, px |-> batch.px]

\* (v - mean[c]) / std[c] for channel c, v a pixel value; result in 1/100
NormalizeChannel(v, c) == ((v * 10000 - Mean[c]) * 100) \div Std[c]

\* image - mean, image / std over the batch
Normalize(batch) ==
    [shape |-> batch.shape,
     px |-> [b \in DOMAIN batch.px |->
                [c \in DOMAIN batch.px[b] |-> NormalizeChannel(batch.px[b][c], c)]]]

\* the preprocessed colour of an image whose decoded colour is px
Pre(px) == [c \in DOMAIN px |-> NormalizeChannel(px[c], c)]

\* self.model.encode_image: the pretrained network, a fixed deterministic
\* function from a preprocessed image to a non-zero feature vector
ClipNet(x) ==
    CASE x = Pre(<<255, 0, 0>>) -> <<6, 8>>
      [] x = Pre(<<0, 255, 0>>) -> <<5, 0>>
      [] x = Pre(<<0, 0, 1>>) -> <<9, 0 - 12>>
      [] x = Pre(<<128, 128, 128>>) -> <<0 - 4, 3>>
      [] OTHER -> <<0, 0 - 10>>

Dot(a, b) == a[1] * b[1] + a[2] * b[2]

\* the Euclidean norm of a vector whose norm is an integer
Norm(v) == CHOOSE n \in 0..(4 * One) : n * n = Dot(v, v)

\* image_features / image_features.norm(dim=1, keepdim=True), one row
DivideByNorm(v) == [d \in DOMAIN v |-> (v[d] * One) \div Norm(v)]

encode_image(image, sz) ==
    LET x == Normalize(Interpolate(image, sz))
    IN  [b \in DOMAIN x.px |-> DivideByNorm(ClipNet(x.px[b]))]

\* F.cosine_similarity of two vectors: x . y / (|x| * |y|); the eps that
\* bounds the norms from below does not act on a non-zero vector
CosineSimilarity(x, y) == (Dot(x, y) * One * One) \div (Norm(x) * Norm(y))

\* mutant: both operands unsqueezed along the same axis, so that every row is
\* compared with itself
compute_all_similarities_same_axis(image_features) ==
    [i \in DOMAIN image_features |->
        [j \in DOMAIN image_features |->
            CosineSimilarity(image_features[i], image_features[i])]]

\* entry (i, j) compares row i of unsqueeze(1) with row j of unsqueeze(0)
compute_all_similarities(image_features) ==
    [i \in DOMAIN image_features |->
        [j \in DOMAIN image_features |->
            CosineSimilarity(image_features[i], image_features[j])]]

(***************************************************************************)
(* load_images_from_folder.                                                *)
(***************************************************************************)
\* mutant: suffix in filename
EndsWith_contains(filename, suffix) ==
    \E p \in Stems, q \in {"", ".bak"} : filename = (p \o suffix) \o q

\* filename.endswith(suffix)
EndsWith(filename, suffix) == \E p \in Stems : filename = p \o suffix

\* io.read_image(...).unsqueeze(0): the batch dimension is added in front
ReadImage(filename) ==
    LET t == Decode(filename)
    IN  [shape |-> <<1>> \o t.shape, px |-> <<t.px>>]

\* torch.cat accepts a non-empty list of tensors that agree in every
\* dimension but the first
CatOK(images) ==
    /\ images # <<>>
    /\ \A x, y \in DOMAIN images : Tail(images[x].shape) = Tail(images[y].shape)

RECURSIVE CatPixels(_)
CatPixels(images) ==
    IF images = <<>> THEN <<>> ELSE Head(images).px \o CatPixels(Tail(images))

RECURSIVE CatRows(_)
CatRows(images) ==
    IF images = <<>> THEN 0 ELSE Head(images).shape[1] + CatRows(Tail(images))

TorchCat(images) ==
    [shape |-> <<CatRows(images)>> \o Tail(images[1].shape), px |-> CatPixels(images)]

(***************************************************************************)
(* find_least_similar.                                                     *)
(***************************************************************************)
\* the inner loop: for j in range(i + 1, n), appended to acc
RECURSIVE InnerLoop(_, _, _, _, _, _)
InnerLoop(acc, m, names, n, i, j) ==
    IF j > n THEN acc
    ELSE InnerLoop(Append(acc, <<<<names[i], names[j]>>, m[i][j]>>), m, names, n, i, j + 1)

\* mutant: for j in range(i, n)
RECURSIVE OuterLoop_from_i(_, _, _, _, _)
OuterLoop_from_i(acc, m, names, n, i) ==
    IF i > n THEN acc
    ELSE OuterLoop_from_i(InnerLoop(acc, m, names, n, i, i), m, names, n, i + 1)

\* the outer loop: for i in range(n)
RECURSIVE OuterLoop(_, _, _, _, _)
OuterLoop(acc, m, names, n, i) ==
    IF i > n THEN acc
    ELSE OuterLoop(InnerLoop(acc, m, names, n, i, i + 1), m, names, n, i + 1)

\* mutant: an unstable sort, an entry goes in front of the entries of equal key
InsertByKey_unstable(sorted, x) ==
    LET pos == Cardinality({q \in DOMAIN sorted : sorted[q][2] < x[2]})
    IN  SubSeq(sorted, 1, pos) \o <<x>> \o SubSeq(sorted, pos + 1, Len(sorted))

\* list.sort(key=lambda x: x[1]) is stable: an entry goes behind every entry
\* already placed whose key is not greater
InsertByKey(sorted, x) ==
    LET pos == Cardinality({q \in DOMAIN sorted : sorted[q][2] <= x[2]})
    IN  SubSeq(sorted, 1, pos) \o <<x>> \o SubSeq(sorted, pos + 1, Len(sorted))

RECURSIVE SortFrom(_, _)
SortFrom(sorted, rest) ==
    IF rest = <<>> THEN sorted ELSE SortFrom(InsertByKey(sorted, Head(rest)), Tail(rest))

\* mutant: sorted(similarities, key=...) with its result dropped
SortByScore_dropped(similarities) == similarities

SortByScore(similarities) == SortFrom(<<>>, similarities)

\* similarities[:top_n], Python's slice: a negative stop counts from the end
SliceTo(s, stop) ==
    LET e == IF stop < 0 THEN Max(Len(s) + stop, 0) ELSE Min(stop, Len(s))
    IN  SubSeq(s, 1, e)

find_least_similar(m, names, topn) ==
    SliceTo(SortByScore(OuterLoop(<<>>, m, names, Len(m), 1)), topn)

(***************************************************************************)
(* main: the printed line.                                                 *)
(***************************************************************************)
\* f"{score:.4f}": sign, integer digits, four decimals (One * One divides
\* 10000, so no digit is rounded)
Format4f(score) ==
    LET t == (Abs(score) * 10000) \div (One * One)
    IN  [neg |-> score < 0, int |-> t \div 10000, frac |-> t % 10000]

Line(entry) == [file1 |-> entry[1][1], file2 |-> entry[1][2], score |-> Format4f(entry[2])]

(***************************************************************************)
(* State.                                                                  *)
(***************************************************************************)
VARIABLES
    debug,              \* __debug__: FALSE when the interpreter runs with -O
    store,              \* the paths that are checkpoint files clip.load can read
    folder,             \* the directory at folder_path: [exists, entries]
    model_name,         \* main's parameter
    top_n,              \* main's / find_least_similar's parameter
    pc,                 \* the statement the run is at
    err,                \* the exception that ended the run, "" if none
    size,               \* ClipSimilarity.size
    listing,            \* what os.listdir returned
    k,                  \* the position of the for loop in listing
    images,             \* load_images_from_folder's list images
    filenames,          \* load_images_from_folder's list filenames
    images_tensor,      \* the batch torch.cat returned
    image_features,     \* the embeddings
    similarity_matrix,
    least_similar_pairs,
    p,                  \* the position of main's for loop
    output,             \* the lines printed so far
    run,                \* 1 for the first invocation of the script, 2 for the second
    first               \* how the first invocation ended, <<>> before that

env == <<debug, store, folder, model_name, top_n>>

prog == <<pc, err, size, listing, k, images, filenames, images_tensor,
          image_features, similarity_matrix, least_similar_pairs, p, output>>

vars == <<env, prog, run, first>>

NoTensor == [shape |-> <<>>, px |-> <<>>]

Folders ==
    {[exists |-> FALSE, entries |-> {}]}
        \cup {[exists |-> TRUE, entries |-> S] :
                S \in {T \in SUBSET Files : Cardinality(T) <= MaxFiles}}

Stores == {{}, {ModelsPrefix \o n : n \in ModelNames}}

\* the program's variables before main's first statement
Start ==
    /\ pc = "construct"
    /\ err = ""
    /\ size = 0
    /\ listing = <<>>
    /\ k = 1
    /\ images = <<>>
    /\ filenames = <<>>
    /\ images_tensor = NoTensor
    /\ image_features = <<>>
    /\ similarity_matrix = <<>>
    /\ least_similar_pairs = <<>>
    /\ p = 1
    /\ output = <<>>

\* main(folder_path, model_name, top_n) is called
Init ==
    /\ debug \in BOOLEAN
    /\ store \in Stores
    /\ folder \in Folders
    /\ model_name \in ModelNames
    /\ top_n \in 1..MaxTopN
    /\ Start
    /\ run = 1
    /\ first = <<>>

Fail(exception) ==
    /\ pc' = "failed"
    /\ err' = exception

(***************************************************************************)
(* main, statement by statement.                                           *)
(***************************************************************************)
\* clip_model = ClipSimilarity("./models/" + model_name).to("cuda")
Construct ==
    /\ pc = "construct"
    /\ LET name == ModelsPrefix \o model_name
       IN  IF ~AssertPasses(debug, name)
           THEN Fail("AssertionError") /\ UNCHANGED size
           ELSE /\ size' = Size(name)
                /\ IF ClipLoadOK(name, store)
                   THEN pc' = "listdir" /\ UNCHANGED err
                   ELSE Fail("RuntimeError: model not found")
    /\ UNCHANGED <<env, listing, k, images, filenames, images_tensor, image_features,
                   similarity_matrix, least_similar_pairs, p, output, run, first>>

\* load_images_from_folder: os.listdir(folder), in an order of its own
Listdir ==
    /\ pc = "listdir"
    /\ IF folder.exists
       THEN /\ \E order \in Orderings(folder.entries) : listing' = order
            /\ pc' = "loop"
            /\ UNCHANGED err
       ELSE Fail("FileNotFoundError") /\ UNCHANGED listing
    /\ UNCHANGED <<env, size, k, images, filenames, images_tensor, image_features,
                   similarity_matrix, least_similar_pairs, p, output, run, first>>

\* mutant: a file that cannot be decoded is skipped (try/except: continue)
LoopStep_skips_undecodable ==
    /\ pc = "loop"
    /\ k <= Len(listing)
    /\ LET filename == listing[k]
       IN  IF EndsWith(filename, TargetExtension) /\ Decode(filename).ok
           THEN /\ images' = Append(images, ReadImage(filename))
                /\ filenames' = Append(filenames, filename)
           ELSE UNCHANGED <<images, filenames>>
    /\ k' = k + 1
    /\ UNCHANGED <<env, pc, err, size, listing, images_tensor, image_features,
                   similarity_matrix, least_similar_pairs, p, output, run, first>>

\* load_images_from_folder: one iteration of the for loop
LoopStep ==
    /\ pc = "loop"
    /\ k <= Len(listing)
    /\ LET filename == listing[k]
       IN  IF EndsWith(filename, TargetExtension)
           THEN IF Decode(filename).ok
                THEN /\ images' = Append(images, ReadImage(filename))
                     /\ filenames' = Append(filenames, filename)
                     /\ k' = k + 1
                     /\ UNCHANGED <<pc, err>>
                ELSE Fail("RuntimeError: read_image") /\ UNCHANGED <<images, filenames, k>>
           ELSE /\ k' = k + 1
                /\ UNCHANGED <<pc, err, images, filenames>>
    /\ UNCHANGED <<env, size, listing, images_tensor, image_features,
                   similarity_matrix, least_similar_pairs, p, output, run, first>>

\* load_images_from_folder: torch.cat(images).to("cuda") and the return
Cat ==
    /\ pc = "loop"
    /\ k > Len(listing)
    /\ IF CatOK(images)
       THEN /\ images_tensor' = TorchCat(images)
            /\ pc' = "encode"
            /\ UNCHANGED err
       ELSE Fail("RuntimeError: torch.cat") /\ UNCHANGED images_tensor
    /\ UNCHANGED <<env, size, listing, k, images, filenames, image_features,
                   similarity_matrix, least_similar_pairs, p, output, run, first>>

\* image_features = clip_model.encode_image(images)
Encode ==
    /\ pc = "encode"
    /\ image_features' = encode_image(images_tensor, size)
    /\ pc' = "similarity"
    /\ UNCHANGED <<env, err, size, listing, k, images, filenames, images_tensor,
                   similarity_matrix, least_similar_pairs, p, output, run, first>>

\* similarity_matrix = clip_model.compute_all_similarities(image_features)
Similarity ==
    /\ pc = "similarity"
    /\ similarity_matrix' = compute_all_similarities(image_features)
    /\ pc' = "rank"
    /\ UNCHANGED <<env, err, size, listing, k, images, filenames, images_tensor,
                   image_features, least_similar_pairs, p, output, run, first>>

\* least_similar_pairs = find_least_similar(similarity_matrix, filenames, top_n)
Rank ==
    /\ pc = "rank"
    /\ least_similar_pairs' = find_least_similar(similarity_matrix, filenames, top_n)
    /\ pc' = "print"
    /\ UNCHANGED <<env, err, size, listing, k, images, filenames, images_tensor,
                   image_features, similarity_matrix, p, output, run, first>>

\* one iteration of main's for loop: print(...)
PrintLine ==
    /\ pc = "print"
    /\ p <= Len(least_similar_pairs)
    /\ output' = Append(output, Line(least_similar_pairs[p]))
    /\ p' = p + 1
    /\ UNCHANGED <<env, pc, err, size, listing, k, images, filenames, images_tensor,
                   image_features, similarity_matrix, least_similar_pairs, run, first>>

\* main returns
Return ==
    /\ pc = "print"
    /\ p > Len(least_similar_pairs)
    /\ pc' = "done"
    /\ UNCHANGED <<env, err, size, listing, k, images, filenames, images_tensor,
                   image_features, similarity_matrix, least_similar_pairs, p, output,
                   run, first>>

Next ==
    \/ Construct
    \/ Listdir
    \/ LoopStep
    \/ Cat
    \/ Encode
    \/ Similarity
    \/ Rank
    \/ PrintLine
    \/ Return

Spec == Init /\ [][Next]_vars

(***************************************************************************)
(* The script run a second time on the same folder, with the same          *)
(* interpreter, checkpoints and parameters: python runs main again from    *)
(* its first statement.                                                    *)
(***************************************************************************)
Rerun ==
    /\ pc \in {"done", "failed"}
    /\ run = 1
    /\ first' = [pc |-> pc, err |-> err, listing |-> listing, output |-> output]
    /\ run' = 2
    /\ pc' = "construct"
    /\ err' = ""
    /\ size' = 0
    /\ listing' = <<>>
    /\ k' = 1
    /\ images' = <<>>
    /\ filenames' = <<>>
    /\ images_tensor' = NoTensor
    /\ image_features' = <<>>
    /\ similarity_matrix' = <<>>
    /\ least_similar_pairs' = <<>>
    /\ p' = 1
    /\ output' = <<>>
    /\ UNCHANGED env

NextTwice ==
    \/ Next
    \/ Rerun

SpecTwice == Init /\ [][NextTwice]_vars

(***************************************************************************)
(* find_least_similar called on its own: any matrix of n <= MaxN rows with *)
(* entries in ScoreVals above the diagonal, and on and below the diagonal  *)
(* either one value everywhere or the mirror image with MaxScore on the    *)
(* diagonal; n distinct file names; any top_n in 1..MaxTopN.               *)
(***************************************************************************)
ScoreVals == (0 - 1)..MaxScore

RankNames == <<"A", "B", "C", "D", "E", "F">>

Upper(n) == {ij \in (1..n) \X (1..n) : ij[1] < ij[2]}

Matrix(n, u, mirror, fill) ==
    [i \in 1..n |->
        [j \in 1..n |->
            IF i < j THEN u[<<i, j>>]
            ELSE IF ~mirror THEN fill
            ELSE IF i = j THEN MaxScore
            ELSE u[<<j, i>>]]]

NoFolder == [exists |-> FALSE, entries |-> {}]

InitRank ==
    /\ debug = FALSE
    /\ store = {}
    /\ folder = NoFolder
    /\ model_name = DefaultModelName
    /\ top_n \in 1..MaxTopN
    /\ pc = "rank"
    /\ err = ""
    /\ size = 0
    /\ listing = <<>>
    /\ k = 1
    /\ images = <<>>
    /\ images_tensor = NoTensor
    /\ image_features = <<>>
    /\ \E n \in 0..MaxN :
          /\ filenames = SubSeq(RankNames, 1, n)
          /\ \E u \in [Upper(n) -> ScoreVals], mirror \in BOOLEAN, fill \in ScoreVals :
                similarity_matrix = Matrix(n, u, mirror, fill)
    /\ least_similar_pairs = <<>>
    /\ p = 1
    /\ output = <<>>
    /\ run = 1
    /\ first = <<>>

NextRank == Rank

SpecRank == InitRank /\ [][NextRank]_vars

(***************************************************************************)
(* compute_all_similarities called on its own: any n <= MaxN embeddings of *)
(* unit norm.                                                              *)
(***************************************************************************)
UnitVectors == {v \in ((0 - One)..One) \X ((0 - One)..One) : Dot(v, v) = One * One}

InitSim ==
    /\ debug = FALSE
    /\ store = {}
    /\ folder = NoFolder
    /\ model_name = DefaultModelName
    /\ top_n = DefaultTopN
    /\ pc = "similarity"
    /\ err = ""
    /\ size = 0
    /\ listing = <<>>
    /\ k = 1
    /\ images = <<>>
    /\ filenames = <<>>
    /\ images_tensor = NoTensor
    /\ \E n \in 0..MaxN : image_features \in [1..n -> UnitVectors]
    /\ similarity_matrix = <<>>
    /\ least_similar_pairs = <<>>
    /\ p = 1
    /\ output = <<>>
    /\ run = 1
    /\ first = <<>>

NextSim == Similarity

SpecSim == InitSim /\ [][NextSim]_vars

(***************************************************************************)
(* Vocabulary of the properties.                                           *)
(***************************************************************************)
\* the files of the universe whose name ends with the target extension
TargetFiles == {"a.png", "b.png", "c.png", "d.png", "e.png", "f.png"}

IsTarget(f) == f \in TargetFiles

Targets == folder.entries \cap TargetFiles

Terminated == pc \in {"done", "failed"}

\* the embedder was constructed: the run got past ClipSimilarity(...)
Constructed == pc # "construct" /\ err \notin {"AssertionError", "RuntimeError: model not found"}

\* load_images_from_folder has returned
Loaded == pc \in {"encode", "similarity", "rank", "print", "done"}

PairCount(n) == (n * (n - 1)) \div 2

(***************************************************************************)
(* C3.  A run of main on a folder with zero files of the target extension  *)
(* ends normally with empty output; stated for the runs whose embedder was *)
(* constructed, so that only the loading, embedding, similarity and        *)
(* ranking stages can fail it.                                             *)
(***************************************************************************)
C3_ZeroImagesEndNormally ==
    (Constructed /\ Terminated /\ folder.exists /\ Targets = {})
        => (pc = "done" /\ output = <<>>)

(***************************************************************************)
(* C4.  The model-variant check rejects only unsupported names: a run of   *)
(* main ends with the configuration error of the constructor only when     *)
(* model_name is not in the supported set.                                 *)
(***************************************************************************)
C4_OnlyUnsupportedRejected ==
    (pc = "failed" /\ err = "AssertionError") => model_name \notin SupportedNames

(***************************************************************************)
(* C7.  load_images_from_folder keeps filenames and images aligned after   *)
(* every iteration: tensor x is the decoded image of filenames[x], and the *)
(* names recorded are the names of the part of the listing gone through    *)
(* that end with .png, in listing order; on return the batch holds one row *)
(* per target file of the directory, aligned with filenames.               *)
(***************************************************************************)
C7_LoaderAligned ==
    /\ Len(images) = Len(filenames)
    /\ \A x \in DOMAIN filenames :
          /\ images[x].px = <<Decode(filenames[x]).px>>
          /\ images[x].shape = <<1>> \o Decode(filenames[x]).shape
    /\ pc = "loop" => filenames = SelectSeq(SubSeq(listing, 1, k - 1), IsTarget)
    /\ Loaded =>
          /\ filenames = SelectSeq(listing, IsTarget)
          /\ Range(filenames) = Targets
          /\ Len(images_tensor.px) = Len(filenames)
          /\ images_tensor.shape[1] = Len(filenames)
          /\ \A x \in DOMAIN filenames : images_tensor.px[x] = Decode(filenames[x]).px

\* the loader returned two or more images and skipped another file
C7_Witness ==
    /\ pc = "encode"
    /\ Len(filenames) >= 2
    /\ Len(listing) > Len(filenames)

(***************************************************************************)
(* C8.  A failure aborts the run: a run that failed printed nothing and    *)
(* computed nothing after the failure; the loader does not return when the *)
(* directory is missing or a target file cannot be decoded (the file is    *)
(* not skipped); nothing past construction runs when the constructor's     *)
(* assertion fails.                                                        *)
(***************************************************************************)
C8_FailureAborts ==
    /\ pc = "failed" =>
          /\ output = <<>>
          /\ least_similar_pairs = <<>>
          /\ similarity_matrix = <<>>
          /\ image_features = <<>>
          /\ images_tensor = NoTensor
    /\ (pc = "failed" /\ err \in {"AssertionError", "RuntimeError: model not found"}) =>
          listing = <<>> /\ images = <<>>
    /\ (pc = "failed" /\ err = "FileNotFoundError") => images = <<>>
    /\ (pc = "loop" \/ Loaded) =>
          /\ folder.exists
          /\ \A x \in 1..(k - 1) : IsTarget(listing[x]) => Decode(listing[x]).ok
    /\ Loaded => \A f \in Targets : Decode(f).ok
    /\ (debug /\ (ModelsPrefix \o model_name) \notin SupportedNames) =>
          pc \in {"construct", "failed"}

\* the loader failed on an undecodable file after it had loaded another one
C8_Witness ==
    /\ pc = "failed"
    /\ err = "RuntimeError: read_image"
    /\ Len(filenames) >= 1

(***************************************************************************)
(* C9.  The driver prints one line per ranked pair: a run with a supported *)
(* model name whose checkpoint is available, on an existing folder of      *)
(* N >= 1 decodable images of one shape, ends normally with                *)
(* min(top_n, N*(N-1)/2) lines printed (zero lines for exactly one image). *)
(***************************************************************************)
C9_DriverPrintsRankedPairs ==
    ( /\ Terminated
      /\ model_name \in SupportedNames
      /\ (ModelsPrefix \o model_name) \in store
      /\ folder.exists
      /\ Targets # {}
      /\ \A f \in Targets : Decode(f).ok
      /\ \A f, g \in Targets : Decode(f).shape = Decode(g).shape )
        => /\ pc = "done"
           /\ Len(output) = Min(top_n, PairCount(Cardinality(Targets)))

(***************************************************************************)
(* C10.  The batch main passes to encode_image has all pixel values in the *)
(* range [0, 1].                                                           *)
(***************************************************************************)
C10_PixelsInUnitRange ==
    pc = "encode" =>
        \A b \in DOMAIN images_tensor.px :
            \A c \in DOMAIN images_tensor.px[b] : images_tensor.px[b][c] \in 0..1

(***************************************************************************)
(* Vocabulary of the properties of find_least_similar.                     *)
(***************************************************************************)
\* find_least_similar has returned
Ranked == pc \in {"print", "done"}

\* the index of a file name in filenames (the names are distinct)
IndexOf(name) == CHOOSE x \in DOMAIN filenames : filenames[x] = name

\* the index pair <<i, j>> of a returned entry
PairOf(entry) == <<IndexOf(entry[1][1]), IndexOf(entry[1][2])>>

\* <<i, j>> comes before <<i2, j2>> in the enumeration, i outer and j inner
Before(a, b) == a[1] < b[1] \/ (a[1] = b[1] /\ a[2] < b[2])

Returned == {PairOf(least_similar_pairs[x]) : x \in DOMAIN least_similar_pairs}

(***************************************************************************)
(* C1.  find_least_similar returns exactly min(top_n, N*(N-1)/2) entries;  *)
(* each entry is a pair (filenames[i], filenames[j]) with i < j, no pair   *)
(* appears twice, and the scores are in non-decreasing order; it returns   *)
(* all pairs when top_n exceeds their number and nothing when N < 2.       *)
(***************************************************************************)
C1_RankerCountAndOrder ==
    Ranked =>
        LET r == least_similar_pairs
            n == Len(filenames)
        IN  /\ Len(r) = Min(top_n, PairCount(n))
            /\ \A x \in DOMAIN r :
                  \E i, j \in 1..n :
                      i < j /\ r[x][1] = <<filenames[i], filenames[j]>>
            /\ \A x, y \in DOMAIN r : x # y => r[x][1] # r[y][1]
            /\ \A x, y \in DOMAIN r : x < y => r[x][2] <= r[y][2]
            /\ top_n >= PairCount(n) => Returned = Upper(n)
            /\ n < 2 => r = <<>>

\* three images, top_n larger than the three pairs there are: all returned
C1_Witness ==
    /\ Ranked
    /\ Len(filenames) = 3
    /\ top_n > 3
    /\ Len(least_similar_pairs) = 3
    /\ least_similar_pairs[1][2] < least_similar_pairs[3][2]

(***************************************************************************)
(* C2.  find_least_similar returns the first top_n entries of the stable   *)
(* ascending sort of the pairs enumerated in row-major order: each entry   *)
(* carries the matrix entry of its pair; every returned pair scores no     *)
(* more than any pair not returned; of two pairs with equal scores the one *)
(* enumerated first comes first, and is the one returned if only one is.   *)
(* With sim(A,B) > sim(B,C) > sim(A,C) and top_n = 2 the result is         *)
(* [(A,C), (B,C)].                                                         *)
(***************************************************************************)
C2_StableAscendingPrefix ==
    Ranked =>
        LET r == least_similar_pairs
            m == similarity_matrix
            n == Len(filenames)
        IN  /\ \A x \in DOMAIN r : r[x][2] = m[PairOf(r[x])[1]][PairOf(r[x])[2]]
            /\ \A x \in DOMAIN r : \A ij \in Upper(n) \ Returned :
                  /\ r[x][2] <= m[ij[1]][ij[2]]
                  /\ r[x][2] = m[ij[1]][ij[2]] => Before(PairOf(r[x]), ij)
            /\ \A x, y \in DOMAIN r :
                  (x < y /\ r[x][2] = r[y][2]) => Before(PairOf(r[x]), PairOf(r[y]))
            /\ (n = 3 /\ top_n = 2 /\ m[1][2] > m[2][3] /\ m[2][3] > m[1][3]) =>
                  r = << <<<<filenames[1], filenames[3]>>, m[1][3]>>,
                         <<<<filenames[2], filenames[3]>>, m[2][3]>> >>

\* the scenario of the claim: three images, top_n = 2, the pair (A, B) dropped
C2_Witness ==
    /\ Ranked
    /\ Len(filenames) = 3
    /\ top_n = 2
    /\ similarity_matrix[1][2] > similarity_matrix[2][3]
    /\ similarity_matrix[2][3] > similarity_matrix[1][3]
    /\ Len(least_similar_pairs) = 2

(***************************************************************************)
(* C5.  Two runs on the same unchanged folder print the identical sequence *)
(* of lines, whatever order the directory enumeration returns.             *)
(***************************************************************************)
C5_SameLinesAnyOrder ==
    (run = 2 /\ Terminated) => output = first.output

Scores(lines) == [x \in DOMAIN lines |-> lines[x].score]

\* the number of pairs i < j of the folder's images that print as score
PairsScoring(score) ==
    Cardinality({ij \in Upper(Len(similarity_matrix)) :
                    Format4f(similarity_matrix[ij[1]][ij[2]]) = score})

(***************************************************************************)
(* C5, amended.  Two runs on the same unchanged folder end the same way    *)
(* and print the same sequence of scores, whatever order the directory     *)
(* enumeration returns; a line whose score no other pair of the folder has *)
(* names the same two files in both runs (in either order); the lines are  *)
(* identical when the enumeration order is the same in both runs.          *)
(***************************************************************************)
C5_SameScoresAnyOrder ==
    (run = 2 /\ Terminated) =>
        /\ pc = first.pc
        /\ err = first.err
        /\ Scores(output) = Scores(first.output)
        /\ \A x \in DOMAIN output :
              PairsScoring(output[x].score) = 1 =>
                  {output[x].file1, output[x].file2}
                      = {first.output[x].file1, first.output[x].file2}
        /\ listing = first.listing => output = first.output

\* two finished runs that enumerated the directory differently and printed
\* different lines
C5_Witness ==
    /\ run = 2
    /\ pc = "done"
    /\ listing # first.listing
    /\ Len(output) >= 2
    /\ output # first.output

(***************************************************************************)
(* C6.  For unit-normalized embeddings compute_all_similarities returns an *)
(* N x N matrix that is symmetric, has 1 on the diagonal, and whose entry  *)
(* (i, j) is the dot product of embeddings i and j.                        *)
(***************************************************************************)
C6_SimilarityMatrix ==
    pc = "rank" =>
        LET m == similarity_matrix
            n == Len(image_features)
        IN  /\ Len(m) = n
            /\ \A i \in 1..n : Len(m[i]) = n
            /\ \A i, j \in 1..n : m[i][j] = m[j][i]
            /\ \A i \in 1..n : m[i][i] = One * One
            /\ \A i, j \in 1..n : m[i][j] = Dot(image_features[i], image_features[j])

\* three embeddings, two of them at an obtuse angle
C6_Witness ==
    /\ pc = "rank"
    /\ Len(similarity_matrix) = 3
    /\ similarity_matrix[1][2] < 0
    /\ similarity_matrix[1][3] > 0
    /\ similarity_matrix[1][3] < One * One

====
